---- MODULE Spec2Model ----
(***************************************************************************)
(* Model of the sign-fetch handshake of TikTokLive:                        *)
(*   src/TikTokLive/client/web/routes/sign_fetch.py                        *)
(* SignFetchRoute.__call__ is a coroutine.  It is modelled statement by    *)
(* statement; `running` is the coroutine that holds the asyncio event      *)
(* loop, which a coroutine gives up only at an `await`.                    *)
(***************************************************************************)
EXTENDS Integers, Sequences, FiniteSets, TLC

\* ---------------------------------------------------------------- bounds
NumCalls == 2      \* coroutines that may be in flight on one session
MaxTokens == 2     \* cookie pairs / attributes in one X-Set-TT-Cookie value

Calls == 1..NumCalls

\* ------------------------------------------------------- Python values
NoneV == [t |-> "None"]
PyStr(s) == [t |-> "str", s |-> s]
PyInt(n) == [t |-> "int", n |-> n]

\* bool(v) of a str or None
Truthy(v) == v.t = "str" /\ v.s # <<>>

DigitChars == <<"0", "1", "2", "3", "4", "5", "6", "7", "8", "9">>

\* the value of one decimal digit character
DigitValue(c) == CHOOSE d \in 0..9 : DigitChars[d + 1] = c

RECURSIVE DigitsOf(_)
\* str(n) for an int n >= 0, as a sequence of characters
DigitsOf(n) == IF n < 10 THEN <<DigitChars[n + 1]>>
               ELSE DigitsOf(n \div 10) \o <<DigitChars[(n % 10) + 1]>>

RECURSIVE IntOfDigits(_)
\* int(s) for a string of decimal digits
IntOfDigits(s) == IF s = <<>> THEN 0
                  ELSE 10 * IntOfDigits(SubSeq(s, 1, Len(s) - 1)) + DigitValue(s[Len(s)])

\* "%s" % v
PercentS(v) == CASE v.t = "None" -> <<"None">>
                 [] v.t = "str" -> v.s
                 [] v.t = "int" -> DigitsOf(v.n)

\* n copies of the character c; Python's c * n is "" for n <= 0
Times(c, n) == IF n <= 0 THEN <<>> ELSE [i \in 1..n |-> c]

RECURSIVE Join(_)
\* " ".join(args)
Join(args) == IF args = <<>> THEN <<>>
              ELSE IF Len(args) = 1 THEN args[1]
              ELSE args[1] \o <<" ">> \o Join(Tail(args))

\* sub occurs in text
Contains(text, sub) ==
    \E i \in 1..(Len(text) + 1) :
        /\ i + Len(sub) - 1 <= Len(text)
        /\ SubSeq(text, i, i + Len(sub) - 1) = sub

\* ------------------------------------------------------------ SignAPIError
ErrorReason == {"RATE_LIMIT", "CONNECT_ERROR", "EMPTY_PAYLOAD", "EMPTY_COOKIES", "SIGN_NOT_200"}

\* SignAPIError(reason, *args): args gets "[REASON]" in front and is joined
SignAPIError(reason, args) ==
    [kind |-> "SignAPIError", reason |-> reason,
     message |-> Join(<< <<"[", reason, "]">> >> \o args)]

\* an exception that is not a SignAPIError and leaves __call__ unhandled
Unhandled(name) == [kind |-> name]

NoOutcome == [kind |-> "none"]
\* ------------------------------------------------- SignatureRateLimitError
header_text == <<"S", "I", "G", "N", " ", "S", "E", "R", "V", "E", "R", " ",
                 "M", "E", "S", "S", "A", "G", "E">>

Whitespace == {" ", "\t", "\n"}

RECURSIVE LStrip(_)
LStrip(s) == IF s # <<>> /\ Head(s) \in Whitespace THEN LStrip(Tail(s)) ELSE s

RECURSIVE RStrip(_)
RStrip(s) == IF s # <<>> /\ s[Len(s)] \in Whitespace
             THEN RStrip(SubSeq(s, 1, Len(s) - 1)) ELSE s

\* str.strip()
Strip(s) == RStrip(LStrip(s))

\* the three lines of the box: header, message, footer
BoxLines(message) ==
    LET msg == Strip(message)
        msg_len == Len(msg)
        header_len == (msg_len - Len(header_text)) \div 2
        padding_len == IF (msg_len - Len(header_text)) % 2 # 0 THEN 1 ELSE 0
    IN  [footer |-> <<"+">> \o Times("-", msg_len + 2) \o <<"+">>,
         header |-> <<"+">> \o Times("-", header_len) \o <<" ">> \o header_text
                    \o <<" ">> \o Times("-", header_len + padding_len) \o <<"+">>,
         message |-> <<"|", " ">> \o msg \o <<" ", "|">>]

format_sign_server_message(message) ==
    LET b == BoxLines(message)
    IN  <<"\n", "\t", "|", "\n", "\t">> \o b.header \o <<"\n", "\t">> \o b.message
        \o <<"\n", "\t">> \o b.footer

\* "<fmt> % retry_after" for the format string of __call__
FormatArg(limit_label, retry_after) ==
    limit_label \o <<"Too many connections started, try again in ">>
    \o PercentS(retry_after) \o <<" seconds.">>

\* SignatureRateLimitError(retry_after, reset_time, api_message, fmt)
SignatureRateLimitError(retry_after, reset_time, api_message, limit_label) ==
    LET euler_msg == IF Truthy(api_message)
                     THEN PyStr(format_sign_server_message(api_message.s)) ELSE NoneV
        args0 == << FormatArg(limit_label, retry_after) >>
        args == IF Truthy(euler_msg) THEN args0 \o <<euler_msg.s>> ELSE args0
    IN  [kind |-> "SignAPIError", reason |-> "RATE_LIMIT",
         message |-> SignAPIError("RATE_LIMIT", args).message,
         retry_after |-> retry_after, reset_time |-> reset_time]
\* ------------------------------------------------ SimpleCookie.load(header)
\* One element of a cookie header, as the cookie pattern of http.cookies
\* matches it: a key with an optional "=value", or text that does not match.
Token(key, val) == [match |-> TRUE, key |-> key, val |-> val]
NoMatch == [match |-> FALSE, key |-> "", val |-> NoneV]

Reserved == {"Domain", "Path"}        \* Morsel._reserved, as used in the inputs
LegalKeys == {"a", "b"}               \* keys made of http.cookies._LegalChars only
Quote == "\""

\* http.cookies._unquote: a value in double quotes loses them
Unquote(v) == IF Len(v) >= 2 /\ v[1] = Quote /\ v[Len(v)] = Quote
              THEN SubSeq(v, 2, Len(v) - 1) ELSE v

RECURSIVE ParseItems(_, _, _)
\* first pass of BaseCookie.__parse_string: the (type, key, value) triples,
\* or valid = FALSE when the whole string is rejected
ParseItems(tokens, items, morsel_seen) ==
    IF tokens = <<>> THEN [valid |-> TRUE, items |-> items]
    ELSE LET tk == Head(tokens) IN
         IF ~tk.match THEN [valid |-> TRUE, items |-> items]
         ELSE IF tk.key \in Reserved
         THEN IF ~morsel_seen \/ tk.val = NoneV
              THEN [valid |-> FALSE, items |-> <<>>]
              ELSE ParseItems(Tail(tokens),
                              Append(items, [tp |-> "attr", key |-> tk.key,
                                             value |-> Unquote(tk.val.s)]),
                              morsel_seen)
         ELSE IF tk.val # NoneV
         THEN ParseItems(Tail(tokens),
                         Append(items, [tp |-> "kv", key |-> tk.key,
                                        value |-> Unquote(tk.val.s)]),
                         TRUE)
         ELSE [valid |-> FALSE, items |-> <<>>]

\* dict.__setitem__(jar, key, M) after M.set(key, value): the morsel of an
\* existing key keeps its attributes
SetMorsel(jar, key, value) ==
    LET old == {m \in jar : m.key = key}
        dom == IF old = {} THEN <<>> ELSE (CHOOSE m \in old : TRUE).domain
    IN  (jar \ old) \cup {[key |-> key, value |-> value, domain |-> dom]}

\* M[attr] = value on the current morsel
SetAttr(jar, cur, attr, value) ==
    IF attr = "Domain"
    THEN {IF m.key = cur THEN [m EXCEPT !.domain = value] ELSE m : m \in jar}
    ELSE jar

RECURSIVE ApplyItems(_, _, _)
\* second pass of BaseCookie.__parse_string; Morsel.set raises CookieError
\* for a key with an illegal character
ApplyItems(items, jar, cur) ==
    IF items = <<>> THEN [error |-> FALSE, jar |-> jar]
    ELSE LET it == Head(items) IN
         IF it.tp = "attr"
         THEN ApplyItems(Tail(items), SetAttr(jar, cur, it.key, it.value), cur)
         ELSE IF it.key \notin LegalKeys THEN [error |-> TRUE, jar |-> jar]
         ELSE ApplyItems(Tail(items), SetMorsel(jar, it.key, it.value), it.key)

\* jar = SimpleCookie(); jar.load(cookies_header)
Load(cookies_header) ==
    LET parsed == ParseItems(cookies_header, <<>>, FALSE)
    IN  IF parsed.valid THEN ApplyItems(parsed.items, {}, "")
        ELSE [error |-> FALSE, jar |-> {}]

\* ------------------------------------------------------ httpx Cookies.set
tiktok_domain == ".tiktok.com"

\* a set that drops the rest of the jar
CookiesSetReplaceAll(jar, name, value, domain) ==
    {[name |-> name, value |-> value, domain |-> domain]}

\* self._web.cookies.set(name, value, domain): the jar is keyed by domain
\* and name, a cookie with the same key is replaced
CookiesSet(jar, name, value, domain) ==
    {c \in jar : ~(c.name = name /\ c.domain = domain)}
    \cup {[name |-> name, value |-> value, domain |-> domain]}

RECURSIVE SetAllMorselDomain(_, _)
\* the loop of lines 210-211 taking the domain from the morsel when it has one
SetAllMorselDomain(web_cookies, jar) ==
    IF jar = {} THEN web_cookies
    ELSE LET m == CHOOSE x \in jar : TRUE
             d == IF m.domain = <<>> THEN tiktok_domain ELSE m.domain[1]
         IN  SetAllMorselDomain(CookiesSet(web_cookies, m.key, m.value, d), jar \ {m})

RECURSIVE SetAll(_, _)
\* for cookie, morsel in jar.items(): self._web.cookies.set(...)
SetAll(web_cookies, jar) ==
    IF jar = {} THEN web_cookies
    ELSE LET m == CHOOSE x \in jar : TRUE
         IN  SetAll(CookiesSet(web_cookies, m.key, m.value, tiktok_domain), jar \ {m})

\* -------------------------------------------------- WebcastResponse.parse
\* a decoder that makes an envelope of any body
ParseLenient(body) ==
    IF body.kind = "proto"
    THEN [ok |-> TRUE, cursor |-> body.cursor, internal_ext |-> body.internal_ext]
    ELSE [ok |-> TRUE, cursor |-> "", internal_ext |-> ""]

\* the decoder of the envelope: the fields of a body that holds an encoded
\* WebcastResponse, an exception for any other body
Parse(body) ==
    IF body.kind = "proto"
    THEN [ok |-> TRUE, cursor |-> body.cursor, internal_ext |-> body.internal_ext]
    ELSE [ok |-> FALSE]

\* ------------------------------------------------------------- __call__
\* the non-200 check made before the empty-body check
BranchStatusFirst(r) ==
    IF r.status_code = 429 THEN "rate_limit"
    ELSE IF r.status_code # 200 THEN "not_200"
    ELSE IF r.body.kind = "empty" THEN "empty_payload"
    ELSE "parse"

\* every status from 429 up taken for a rate limit
BranchRateLimitAbove(r) ==
    IF r.status_code >= 429 THEN "rate_limit"
    ELSE IF r.body.kind = "empty" THEN "empty_payload"
    ELSE IF r.status_code # 200 THEN "not_200"
    ELSE "parse"

\* the non-200 check of line 175 left out
BranchNoStatusCheck(r) ==
    IF r.status_code = 429 THEN "rate_limit"
    ELSE IF r.body.kind = "empty" THEN "empty_payload"
    ELSE "parse"

\* the branch of the if/elif chain of lines 154-175 that the response takes
Branch(r) ==
    IF r.status_code = 429 THEN "rate_limit"
    ELSE IF r.body.kind = "empty" THEN "empty_payload"
    ELSE IF r.status_code # 200 THEN "not_200"
    ELSE "parse"

\* the switch not looked at
ServerMessageAlways(disabled, message) == message

\* line 156: the message of the body, None when SIGN_SERVER_MESSAGE_DISABLED
\* is set
ServerMessage(disabled, message) == IF disabled THEN NoneV ELSE message

\* lines 154-181: the error raised for the response, or the decoded envelope
Classify(r, disabled) ==
    CASE Branch(r) = "rate_limit" ->
           IF r.body.kind \notin {"json", "jsonlist"} THEN Unhandled("JSONDecodeError")
           ELSE IF r.body.kind = "jsonlist" THEN Unhandled("AttributeError")
           ELSE LET server_message == ServerMessage(disabled, r.body.message)
                    limit_label == IF Truthy(r.body.limit_label)
                                   THEN <<"(">> \o r.body.limit_label.s \o <<") ">>
                                   ELSE <<>>
                IN  SignatureRateLimitError(r.headers.RateLimitReset,
                                            r.headers.XRateLimitReset,
                                            server_message, limit_label)
      [] Branch(r) = "empty_payload" ->
           SignAPIError("EMPTY_PAYLOAD",
                        << <<"Sign API returned an empty request. Are you being detected by TikTok?">> >>)
      [] Branch(r) = "not_200" ->
           SignAPIError("SIGN_NOT_200",
                        << <<"Failed request to Sign API with status code ">>
                           \o DigitsOf(r.status_code) \o <<" and payload ">> >>)
      [] Branch(r) = "parse" ->
           LET wr == Parse(r.body)
           IN  IF wr.ok THEN [kind |-> "decoded", webcast_response |-> wr]
               ELSE Unhandled("DecodeError")

\* line 202 as `if cookies_header is None`
UpdateTikTokCookiesNoneOnly(r, web_cookies) ==
    LET cookies_header == r.headers.XSetTTCookie IN
    IF cookies_header = NoneV
    THEN SignAPIError("EMPTY_COOKIES", << <<"Sign server did not return cookies!">> >>)
    ELSE LET loaded == Load(cookies_header.s)
         IN  IF loaded.error THEN Unhandled("CookieError")
             ELSE [kind |-> "updated", set |-> loaded.jar # {},
                   cookies |-> SetAll(web_cookies, loaded.jar)]

\* lines 199-211: the error raised, or the cookie jar after the loop
UpdateTikTokCookies(r, web_cookies) ==
    LET cookies_header == r.headers.XSetTTCookie IN
    IF ~Truthy(cookies_header)
    THEN SignAPIError("EMPTY_COOKIES", << <<"Sign server did not return cookies!">> >>)
    ELSE LET loaded == Load(cookies_header.s)
         IN  IF loaded.error THEN Unhandled("CookieError")
             ELSE [kind |-> "updated", set |-> loaded.jar # {},
                   cookies |-> SetAll(web_cookies, loaded.jar)]
\* ---------------------------------------------------------------- inputs
StatusCodes == {200, 429, 500}

Messages == {NoneV, PyStr(<<"s", "l", "o", "w", " ", "d", "o", "w", "n">>),
             PyStr(<<"T", "o", "o", " ", "m", "a", "n", "y">>)}
Labels == {NoneV, PyStr(<<"ip">>)}
Cursors == {"c1", "c2"}
InternalExts == {"e1", "e2"}

Bodies ==
    {[kind |-> "empty"], [kind |-> "notjson"], [kind |-> "jsonlist"]}
    \cup {[kind |-> "json", message |-> m, limit_label |-> l] : m \in Messages, l \in Labels}
    \cup {[kind |-> "proto", cursor |-> c, internal_ext |-> e] : c \in Cursors, e \in InternalExts}

v1 == <<"v", "1">>
v2quoted == <<Quote, "v", "2", Quote>>

Tokens ==
    {Token("a", PyStr(v1)), Token("a", PyStr(v2quoted)), Token("b", PyStr(v1)),
     Token("a,b", PyStr(v1)), Token("Domain", PyStr(<<"evil.com">>)),
     Token("garbage", NoneV), NoMatch}

TokenSeqs(n) == UNION {[1..k -> Tokens] : k \in 0..n}

CookieHeaders == {NoneV} \cup {PyStr(t) : t \in TokenSeqs(MaxTokens)}
ResetHeaders == {NoneV, PyStr(<<"3", "0">>)}
XResetHeaders == {NoneV, PyStr(DigitsOf(1700000000))}

OneCookie == PyStr(<<Token("a", PyStr(v1))>>)
TwoCookies == PyStr(<<Token("a", PyStr(v2quoted)), Token("b", PyStr(v1))>>)

\* what the transport adapter can return: every status, body and rate-limit
\* header with three cookie headers, and every cookie header on a status-200
\* response that decodes
Responses ==
    [status_code : StatusCodes, body : Bodies,
     headers : [RateLimitReset : ResetHeaders, XRateLimitReset : XResetHeaders,
                XSetTTCookie : {NoneV, PyStr(<<>>), OneCookie}]]
    \cup
    [status_code : {200},
     body : {[kind |-> "proto", cursor |-> c, internal_ext |-> e] :
               c \in Cursors, e \in InternalExts},
     headers : [RateLimitReset : {NoneV}, XRateLimitReset : {NoneV},
                XSetTTCookie : CookieHeaders]]

\* the responses of the handshakes that share a session
SharedResponses ==
    {[status_code |-> 200,
      body |-> [kind |-> "proto", cursor |-> "c1", internal_ext |-> "e1"],
      headers |-> [RateLimitReset |-> NoneV, XRateLimitReset |-> NoneV,
                   XSetTTCookie |-> OneCookie]],
     [status_code |-> 200,
      body |-> [kind |-> "proto", cursor |-> "c2", internal_ext |-> "e2"],
      headers |-> [RateLimitReset |-> NoneV, XRateLimitReset |-> NoneV,
                   XSetTTCookie |-> TwoCookies]],
     [status_code |-> 200,
      body |-> [kind |-> "proto", cursor |-> "c2", internal_ext |-> "e1"],
      headers |-> [RateLimitReset |-> NoneV, XRateLimitReset |-> NoneV,
                   XSetTTCookie |-> NoneV]],
     [status_code |-> 500,
      body |-> [kind |-> "notjson"],
      headers |-> [RateLimitReset |-> NoneV, XRateLimitReset |-> NoneV,
                   XSetTTCookie |-> OneCookie]]}

\* ----------------------------------------------------------------- state
VARIABLES
    params,            \* self._web.params, the session parameters
    cookies,           \* self._web.cookies, the session cookie jar
    SIGN_SERVER_MESSAGE_DISABLED,   \* the environment switch
    running,           \* the call that holds the event loop, 0 for none
    pc,                \* per call: the statement it is at
    response,          \* per call: the local `response`
    webcast_response,  \* per call: the local `webcast_response`
    outcome,           \* per call: what it returned or raised
    requests,          \* per call: requests handed to the transport adapter
    wrote,             \* per call: the parts of the session it has written
    last_success       \* the envelope and cookies of the last call that returned

vars == <<params, cookies, SIGN_SERVER_MESSAGE_DISABLED, running, pc, response,
          webcast_response, outcome, requests, wrote, last_success>>

ParamKeys == {"cursor", "internal_ext", "room_id"}
Absent == "<absent>"

\* the parameters of a new session and of one that has shaken hands before
InitParams ==
    {[k \in ParamKeys |-> IF k = "room_id" THEN "r1" ELSE Absent],
     [k \in ParamKeys |-> CASE k = "room_id" -> "r1" [] k = "cursor" -> "c0"
                              [] k = "internal_ext" -> "e0"]}
v0 == <<"v", "0">>
InitCookies == {{}, {[name |-> "b", value |-> v0, domain |-> tiktok_domain]}}

Init ==
    /\ params \in InitParams
    /\ cookies \in InitCookies
    /\ SIGN_SERVER_MESSAGE_DISABLED \in BOOLEAN
    /\ running = 0
    /\ pc = [p \in Calls |-> "idle"]
    /\ response = [p \in Calls |-> NoneV]
    /\ webcast_response = [p \in Calls |-> NoneV]
    /\ outcome = [p \in Calls |-> NoOutcome]
    /\ requests = [p \in Calls |-> 0]
    /\ wrote = [p \in Calls |-> {}]
    /\ last_success = NoneV

\* line 186 left out
OrderNoInternalExt == <<"update_cookies", "set_cursor", "return">>

\* the parameters written before the cookies are extracted
OrderParamsFirst == <<"set_cursor", "set_internal_ext", "update_cookies", "return">>

\* the cursor written before the cookies are extracted
OrderCursorFirst == <<"set_cursor", "update_cookies", "set_internal_ext", "return">>

\* the statements of the success path, lines 184-188, in program order
Order == <<"update_cookies", "set_cursor", "set_internal_ext", "return">>

\* the statement after l
After(l) == LET i == CHOOSE j \in 1..Len(Order) : Order[j] = l IN Order[i + 1]

\* an await between the update of the cookies and the write of the cursor
YieldsAfterCookies(l) == l \in {"idle", "get_response", "aread", "done", "set_cursor"}

\* the places where a call does not hold the event loop: before and after
\* the coroutine runs, and at the two awaits (lines 142 and 152)
Yields(l) == l \in {"idle", "get_response", "aread", "done"}

CanRun(p) == running = p \/ (running = 0 /\ Yields(pc[p]))

\* move call p to statement l
Goto(p, l) ==
    /\ pc' = [pc EXCEPT ![p] = l]
    /\ running' = IF Yields(l) THEN 0 ELSE p

\* call p ends with outcome o
Finish(p, o) ==
    /\ outcome' = [outcome EXCEPT ![p] = o]
    /\ Goto(p, "done")
\* --------------------------------------------------------------- actions
\* the caller invokes __call__; it runs to the await of line 142, where the
\* request is with the transport adapter
Invoke(p) ==
    /\ pc[p] = "idle"
    /\ CanRun(p)
    /\ requests' = [requests EXCEPT ![p] = requests[p] + 1]
    /\ Goto(p, "get_response")
    /\ UNCHANGED <<params, cookies, SIGN_SERVER_MESSAGE_DISABLED, response,
                   webcast_response, outcome, wrote, last_success>>

\* the caller has taken the outcome of call p and is ready to call again
Again(p) ==
    /\ pc[p] = "done"
    /\ CanRun(p)
    /\ requests' = [requests EXCEPT ![p] = 0]
    /\ outcome' = [outcome EXCEPT ![p] = NoOutcome]
    /\ response' = [response EXCEPT ![p] = NoneV]
    /\ webcast_response' = [webcast_response EXCEPT ![p] = NoneV]
    /\ wrote' = [wrote EXCEPT ![p] = {}]
    /\ Goto(p, "idle")
    /\ UNCHANGED <<params, cookies, SIGN_SERVER_MESSAGE_DISABLED, last_success>>

\* get_response returns r; the call goes on to the await of line 152
GetResponse(p, r) ==
    /\ pc[p] = "get_response"
    /\ CanRun(p)
    /\ response' = [response EXCEPT ![p] = r]
    /\ Goto(p, "aread")
    /\ UNCHANGED <<params, cookies, SIGN_SERVER_MESSAGE_DISABLED, webcast_response,
                   outcome, requests, wrote, last_success>>

\* the request issued once more when the connection fails
RetryOnConnectError == "retry"

\* what the except clause of lines 146-150 does with an httpx.ConnectError
OnConnectError == "raise"

\* get_response raises httpx.ConnectError, lines 146-150
ConnectError(p) ==
    /\ pc[p] = "get_response"
    /\ CanRun(p)
    /\ IF OnConnectError = "raise"
       THEN /\ Finish(p, [SignAPIError("CONNECT_ERROR",
                            << <<"Failed to connect to the sign server due to an httpx.ConnectError!">> >>)
                          EXCEPT !.kind = "SignAPIError"] @@ [cause |-> "httpx.ConnectError"])
            /\ UNCHANGED requests
       ELSE /\ requests[p] < 2
            /\ requests' = [requests EXCEPT ![p] = requests[p] + 1]
            /\ UNCHANGED <<pc, running, outcome>>
    /\ UNCHANGED <<params, cookies, SIGN_SERVER_MESSAGE_DISABLED, response,
                   webcast_response, wrote, last_success>>

\* get_response raises another transport exception, which line 146 does
\* not catch
TransportError(p) ==
    /\ pc[p] = "get_response"
    /\ CanRun(p)
    /\ Finish(p, Unhandled("httpx.ReadTimeout"))
    /\ UNCHANGED <<params, cookies, SIGN_SERVER_MESSAGE_DISABLED, response,
                   webcast_response, requests, wrote, last_success>>

\* the caller cancels the task while it is suspended at an await
Cancel(p) ==
    /\ pc[p] \notin {"idle", "done"}
    /\ Yields(pc[p])
    /\ CanRun(p)
    /\ Finish(p, Unhandled("CancelledError"))
    /\ UNCHANGED <<params, cookies, SIGN_SERVER_MESSAGE_DISABLED, response,
                   webcast_response, requests, wrote, last_success>>

\* aread returns and lines 154-181 run
ReadAndClassify(p) ==
    /\ pc[p] = "aread"
    /\ CanRun(p)
    /\ LET c == Classify(response[p], SIGN_SERVER_MESSAGE_DISABLED) IN
       IF c.kind = "decoded"
       THEN /\ webcast_response' = [webcast_response EXCEPT ![p] = c.webcast_response]
            /\ Goto(p, Order[1])
            /\ UNCHANGED outcome
       ELSE /\ Finish(p, c)
            /\ UNCHANGED webcast_response
    /\ UNCHANGED <<params, cookies, SIGN_SERVER_MESSAGE_DISABLED, response,
                   requests, wrote, last_success>>

\* line 184: self._update_tiktok_cookies(response)
UpdateCookies(p) ==
    /\ pc[p] = "update_cookies"
    /\ CanRun(p)
    /\ LET u == UpdateTikTokCookies(response[p], cookies) IN
       IF u.kind = "updated"
       THEN /\ cookies' = u.cookies
            /\ wrote' = [wrote EXCEPT ![p] = IF u.set THEN @ \cup {"cookies"} ELSE @]
            /\ Goto(p, After("update_cookies"))
            /\ UNCHANGED outcome
       ELSE /\ Finish(p, u)
            /\ UNCHANGED <<cookies, wrote>>
    /\ UNCHANGED <<params, SIGN_SERVER_MESSAGE_DISABLED, response, webcast_response,
                   requests, last_success>>

\* line 185: self._web.params["cursor"] = webcast_response.cursor
SetCursor(p) ==
    /\ pc[p] = "set_cursor"
    /\ CanRun(p)
    /\ params' = [params EXCEPT !["cursor"] = webcast_response[p].cursor]
    /\ wrote' = [wrote EXCEPT ![p] = @ \cup {"cursor"}]
    /\ Goto(p, After("set_cursor"))
    /\ UNCHANGED <<cookies, SIGN_SERVER_MESSAGE_DISABLED, response, webcast_response,
                   outcome, requests, last_success>>

\* line 186: self._web.params["internal_ext"] = webcast_response.internal_ext
SetInternalExt(p) ==
    /\ pc[p] = "set_internal_ext"
    /\ CanRun(p)
    /\ params' = [params EXCEPT !["internal_ext"] = webcast_response[p].internal_ext]
    /\ wrote' = [wrote EXCEPT ![p] = @ \cup {"internal_ext"}]
    /\ Goto(p, After("set_internal_ext"))
    /\ UNCHANGED <<cookies, SIGN_SERVER_MESSAGE_DISABLED, response, webcast_response,
                   outcome, requests, last_success>>

\* the cookies the header of r names, as the jar holds them after the call
Extracted(r) == {[name |-> m.key, value |-> m.value, domain |-> tiktok_domain] :
                    m \in Load(r.headers.XSetTTCookie.s).jar}

\* line 188: return webcast_response
Return(p) ==
    /\ pc[p] = "return"
    /\ CanRun(p)
    /\ Finish(p, [kind |-> "Success", webcast_response |-> webcast_response[p]])
    /\ last_success' = [webcast_response |-> webcast_response[p],
                        cookies |-> Extracted(response[p])]
    /\ UNCHANGED <<params, cookies, SIGN_SERVER_MESSAGE_DISABLED, response,
                   webcast_response, requests, wrote>>

\* one step of call p when the transport answers from the set R
Step(p, R) ==
    \/ Invoke(p)
    \/ \E r \in R : GetResponse(p, r)
    \/ ConnectError(p)
    \/ TransportError(p)
    \/ Cancel(p)
    \/ ReadAndClassify(p)
    \/ UpdateCookies(p)
    \/ SetCursor(p)
    \/ SetInternalExt(p)
    \/ Return(p)

\* one call on a session, any response
Next == Step(1, Responses)

Spec == Init /\ [][Next]_vars

\* a new session
InitShared ==
    /\ Init
    /\ params["cursor"] = Absent
    /\ ~SIGN_SERVER_MESSAGE_DISABLED

\* NumCalls callers on the same session, each making one call after the other
NextShared == \E p \in Calls : Step(p, SharedResponses) \/ Again(p)

SpecShared == InitShared /\ [][NextShared]_vars
\* ==================================================================
\* Properties
\* ==================================================================
\* call p got a response and ran to its end without being cancelled
Completed(p) ==
    /\ pc[p] = "done"
    /\ response[p] # NoneV
    /\ outcome[p].kind # "CancelledError"

Raised(p, reason) == outcome[p].kind = "SignAPIError" /\ outcome[p].reason = reason

\* a cookie header in the standard serialization: name=value pairs with legal
\* names, each optionally followed by attributes
ValidCookieHeader(h) ==
    /\ h.t = "str"
    /\ h.s # <<>>
    /\ h.s[1].key \in LegalKeys
    /\ \A i \in 1..Len(h.s) :
          /\ h.s[i].match
          /\ h.s[i].val # NoneV
          /\ h.s[i].key \in LegalKeys \cup Reserved

\* the cookie names that appear in a header
HeaderNames(h) == {h.s[i].key : i \in {j \in 1..Len(h.s) : h.s[j].key \in LegalKeys}}

AllParts == {"cookies", "cursor", "internal_ext"}

\* C1: a call whose response has status 200, a body that decodes and a valid
\* X-Set-TT-Cookie header returns the decoded envelope; the session's cursor
\* and internal_ext are then the envelope's and the jar holds one entry for
\* each cookie name of the header.
C1_SuccessUpdatesSession ==
    \A p \in Calls :
        (/\ Completed(p)
         /\ response[p].status_code = 200
         /\ response[p].body.kind = "proto"
         /\ ValidCookieHeader(response[p].headers.XSetTTCookie))
        => /\ outcome[p].kind = "Success"
           /\ outcome[p].webcast_response.cursor = response[p].body.cursor
           /\ outcome[p].webcast_response.internal_ext = response[p].body.internal_ext
           /\ params["cursor"] = response[p].body.cursor
           /\ params["internal_ext"] = response[p].body.internal_ext
           /\ \A n \in HeaderNames(response[p].headers.XSetTTCookie) :
                 Cardinality({c \in cookies : c.name = n /\ c.domain = tiktok_domain}) = 1

C1_Witness ==
    \E p \in Calls :
        /\ Completed(p)
        /\ outcome[p].kind = "Success"
        /\ HeaderNames(response[p].headers.XSetTTCookie) = {"a", "b"}
        /\ params["cursor"] = "c2"
        /\ params["internal_ext"] = "e1"
        /\ Cardinality(cookies) = 2

\* C2: status 200, a body that decodes and no X-Set-TT-Cookie header give the
\* error EMPTY_COOKIES, and the session is what it was before the call.
C2_NoCookieHeader ==
    \A p \in Calls :
        (/\ Completed(p)
         /\ response[p].status_code = 200
         /\ response[p].body.kind = "proto"
         /\ response[p].headers.XSetTTCookie = NoneV)
        => /\ Raised(p, "EMPTY_COOKIES")
           /\ wrote[p] = {}
           /\ params \in InitParams
           /\ cookies \in InitCookies

C2_Witness ==
    \E p \in Calls :
        /\ Completed(p)
        /\ response[p].status_code = 200
        /\ response[p].body.kind = "proto"
        /\ response[p].headers.XSetTTCookie = NoneV
        /\ Raised(p, "EMPTY_COOKIES")
        /\ params["cursor"] = "c0"
        /\ cookies # {}

\* C3: a call that ends in one of the five typed errors has written no part
\* of the session, which is what it was before the call; only a call that
\* returns has written.
C3_ErrorsLeaveSession ==
    \A p \in Calls :
        /\ (pc[p] = "done" /\ outcome[p].kind = "SignAPIError")
           => /\ outcome[p].reason \in ErrorReason
              /\ wrote[p] = {}
              /\ params \in InitParams
              /\ cookies \in InitCookies
        /\ (pc[p] = "done" /\ wrote[p] # {}) => outcome[p].kind = "Success"

C3_Witness ==
    /\ \E p \in Calls : Raised(p, "EMPTY_COOKIES") /\ response[p].body.kind = "proto"
                          /\ params["cursor"] = "c0"
\* C4 as stated: every response with status 429 gives the error RATE_LIMIT
\* whatever its body, and retry_after and reset_time are absent when the
\* headers are.
C4_Always429RateLimit ==
    \A p \in Calls :
        (Completed(p) /\ response[p].status_code = 429)
        => /\ Raised(p, "RATE_LIMIT")
           /\ (response[p].headers.RateLimitReset = NoneV
                  => outcome[p].retry_after = NoneV)
           /\ (response[p].headers.XRateLimitReset = NoneV
                  => outcome[p].reset_time = NoneV)

\* C5 as stated: every response with an empty body gives EMPTY_PAYLOAD,
\* whatever its status code.
C5_EmptyBodyAnyStatus ==
    \A p \in Calls :
        (Completed(p) /\ response[p].body.kind = "empty") => Raised(p, "EMPTY_PAYLOAD")

\* C5 amended: every response with an empty body and a status code other
\* than 429 gives EMPTY_PAYLOAD, for status 200 as for any other status: the
\* empty-body check comes after the 429 check and before the non-200 check.
C5_EmptyBodyNot429 ==
    \A p \in Calls :
        (/\ Completed(p)
         /\ response[p].body.kind = "empty"
         /\ response[p].status_code # 429)
        => Raised(p, "EMPTY_PAYLOAD")

C5_Witness ==
    \E p \in Calls :
        /\ Completed(p)
        /\ response[p].body.kind = "empty"
        /\ response[p].status_code = 500
        /\ Raised(p, "EMPTY_PAYLOAD")

\* C6: a response with a status code other than 200 and 429 and a body that
\* is not empty gives SIGN_NOT_200, and the message of the error holds the
\* status code of the response.
C6_Not200 ==
    \A p \in Calls :
        (/\ Completed(p)
         /\ response[p].status_code \notin {200, 429}
         /\ response[p].body.kind # "empty")
        => /\ Raised(p, "SIGN_NOT_200")
           /\ Contains(outcome[p].message,
                       <<"Failed request to Sign API with status code ">>
                       \o DigitsOf(response[p].status_code))

C6_Witness ==
    \E p \in Calls :
        /\ Completed(p)
        /\ response[p].status_code = 500
        /\ response[p].body.kind = "json"
        /\ Raised(p, "SIGN_NOT_200")
        /\ Contains(outcome[p].message, <<"5", "0", "0">>)

Six == {"Success"} \cup ErrorReason

\* the terminal outcome of a call, by name
OutcomeName(o) == IF o.kind = "SignAPIError" THEN o.reason ELSE o.kind

Matched(h) ==
    LET stops == {i \in 1..Len(h) : ~h[i].match}
    IN  IF stops = {} THEN h
        ELSE SubSeq(h, 1, (CHOOSE i \in stops : \A j \in stops : i <= j) - 1)

\* the inputs for which __call__ lets an exception of another type escape
Unclassified(p) ==
    IF response[p] = NoneV THEN outcome[p].kind # "SignAPIError"
    ELSE LET r == response[p] IN
         \/ r.status_code = 429 /\ r.body.kind # "json"
         \/ r.status_code = 200 /\ r.body.kind \notin {"empty", "proto"}
         \/ /\ r.status_code = 200
            /\ r.body.kind = "proto"
            /\ Truthy(r.headers.XSetTTCookie)
            /\ LET h == Matched(r.headers.XSetTTCookie.s) IN
               /\ h # <<>>
               /\ h[1].key \notin Reserved
               /\ \A i \in 1..Len(h) : h[i].val # NoneV
               /\ \E i \in 1..Len(h) : h[i].key \notin LegalKeys \cup Reserved

Extraction(p) ==
    /\ response[p] # NoneV
    /\ Truthy(response[p].headers.XSetTTCookie)
    /\ ~Load(response[p].headers.XSetTTCookie.s).error

\* C8: with several calls in flight on one session, whenever the event loop
\* is free, so that another handshake or another user of the session can
\* run, no call is part of the way through its update, and cursor,
\* internal_ext and the cookies of the last handshake that returned are all
\* in the session; a call writes only after its cookies were extracted.
C8_AtomicUpdate ==
    /\ running = 0 =>
         /\ \A p \in Calls : pc[p] # "done" => wrote[p] = {}
         /\ last_success # NoneV =>
              /\ params["cursor"] = last_success.webcast_response.cursor
              /\ params["internal_ext"] = last_success.webcast_response.internal_ext
              /\ last_success.cookies \subseteq cookies
    /\ \A p \in Calls : wrote[p] # {} => Extraction(p)

C8_Witness ==
    \E p, q \in Calls :
        /\ p # q
        /\ running = 0
        /\ pc[q] = "aread"
        /\ outcome[q] = NoOutcome
        /\ outcome[p].kind = "Success"
        /\ wrote[p] = AllParts
        /\ \E c \in cookies : c.name = "a" /\ c.value = <<"v", "2">>
        /\ params["cursor"] = "c2"
        /\ response[q].body.kind = "proto" /\ response[q].body.cursor = "c1"

\* C9: whenever no call is running, the session's cursor and internal_ext
\* are those of the envelope of the last handshake that returned, or the
\* initial ones when none has; calls that failed have not changed them.
C9_LastSuccess ==
    running = 0 =>
        IF last_success = NoneV
        THEN params["cursor"] = Absent /\ params["internal_ext"] = Absent
        ELSE /\ params["cursor"] = last_success.webcast_response.cursor
             /\ params["internal_ext"] = last_success.webcast_response.internal_ext

C9_Witness ==
    \E p, q \in Calls :
        /\ running = 0
        /\ outcome[p].kind = "Success"
        /\ outcome[p].webcast_response.cursor = "c1"
        /\ Raised(q, "EMPTY_COOKIES")
        /\ response[q].body.cursor = "c2"
        /\ last_success # NoneV
        /\ params["cursor"] = "c1"
        /\ params["internal_ext"] = "e1"

\* C10 as stated, for a 429 response with a JSON object as body: retry_after
\* is the integer value of the RateLimit-Reset header, reset_time the
\* integer value of the X-RateLimit-Reset header, and with a limit_label L
\* the message holds "(L) Too many connections started, try again in N
\* seconds." for N = retry_after.
C10_IntegerAccessors ==
    \A p \in Calls :
        (/\ Completed(p)
         /\ response[p].status_code = 429
         /\ response[p].body.kind = "json")
        => LET h == response[p].headers IN
           /\ Raised(p, "RATE_LIMIT")
           /\ h.RateLimitReset # NoneV =>
                /\ outcome[p].retry_after = PyInt(IntOfDigits(h.RateLimitReset.s))
                /\ IntOfDigits(h.RateLimitReset.s) >= 0
           /\ h.XRateLimitReset # NoneV =>
                outcome[p].reset_time = PyInt(IntOfDigits(h.XRateLimitReset.s))
           /\ Truthy(response[p].body.limit_label) =>
                Contains(outcome[p].message,
                         <<"(">> \o response[p].body.limit_label.s
                         \o <<") ", "Too many connections started, try again in ">>
                         \o PercentS(outcome[p].retry_after) \o <<" seconds.">>)
\* C11: a connection failure of the transport ends the call with
\* CONNECT_ERROR, which carries the transport's exception as its cause, and
\* a call, whatever its outcome, hands exactly one request to the transport
\* adapter.
C11_ConnectErrorNoRetry ==
    \A p \in Calls :
        /\ requests[p] = IF pc[p] = "idle" THEN 0 ELSE 1
        /\ (pc[p] = "done" /\ response[p] = NoneV /\ outcome[p].kind = "SignAPIError")
           => /\ outcome[p].reason = "CONNECT_ERROR"
              /\ outcome[p].cause = "httpx.ConnectError"
              /\ Contains(outcome[p].message, <<"[", "CONNECT_ERROR", "]">>)

C11_Witness ==
    \E p \in Calls :
        /\ Raised(p, "CONNECT_ERROR")
        /\ outcome[p].cause = "httpx.ConnectError"
        /\ requests[p] = 1
        /\ response[p] = NoneV
\* call p ran to completion on a status-200 response whose body decodes
Decoded200(p) ==
    /\ Completed(p)
    /\ response[p].status_code = 200
    /\ response[p].body.kind = "proto"

\* a header that the cookie parser rejects as a whole or that starts with
\* text that is no cookie pair
Rejected(h) ==
    LET m == Matched(h) IN
    \/ m = <<>>
    \/ m[1].key \in Reserved
    \/ \E i \in 1..Len(m) : m[i].val = NoneV

\* C12 as stated: with an X-Set-TT-Cookie header that is present but empty
\* or malformed the parser yields no cookie and no error, and the call does
\* not end in EMPTY_COOKIES.
C12_PresentHeaderNoError ==
    \A p \in Calls :
        (/\ Decoded200(p)
         /\ response[p].headers.XSetTTCookie.t = "str"
         /\ ~ValidCookieHeader(response[p].headers.XSetTTCookie))
        => /\ ~Raised(p, "EMPTY_COOKIES")
           /\ outcome[p].kind = "Success"
           /\ "cookies" \notin wrote[p]

\* C12 amended: the call ends in EMPTY_COOKIES exactly when the header is
\* absent or empty; with a header that is not empty and that the parser
\* rejects (it starts with text that is no cookie pair or with an attribute,
\* or holds a bare word) no cookie is set, no error is raised and the call
\* returns the envelope.
C12_EmptyCookiesIffNoHeaderText ==
    \A p \in Calls :
        Decoded200(p) =>
            LET h == response[p].headers.XSetTTCookie IN
            /\ Raised(p, "EMPTY_COOKIES") <=> (h = NoneV \/ h = PyStr(<<>>))
            /\ (h.t = "str" /\ h.s # <<>> /\ Rejected(h.s))
               => /\ outcome[p].kind = "Success"
                  /\ "cookies" \notin wrote[p]
                  /\ cookies \in InitCookies

C12_Witness ==
    \E p \in Calls :
        /\ Decoded200(p)
        /\ response[p].headers.XSetTTCookie = PyStr(<<Token("garbage", NoneV)>>)
        /\ outcome[p].kind = "Success"
        /\ wrote[p] = {"cursor", "internal_ext"}
\* C13: on a 429 response whose body has a message that is not empty, the
\* RATE_LIMIT error holds the boxed server message unless the switch is set;
\* with the switch set it holds no such block; either way retry_after and
\* reset_time are what the headers give.
C13_MessageSwitch ==
    \A p \in Calls :
        (/\ Completed(p)
         /\ response[p].status_code = 429
         /\ response[p].body.kind = "json"
         /\ Truthy(response[p].body.message))
        => LET boxed == <<"|", " ">> \o Strip(response[p].body.message.s) \o <<" ", "|">> IN
           /\ Raised(p, "RATE_LIMIT")
           /\ outcome[p].retry_after = response[p].headers.RateLimitReset
           /\ outcome[p].reset_time = response[p].headers.XRateLimitReset
           /\ SIGN_SERVER_MESSAGE_DISABLED
              => /\ ~Contains(outcome[p].message, header_text)
                 /\ ~Contains(outcome[p].message, boxed)
                 /\ outcome[p].message[Len(outcome[p].message)] = " seconds."
           /\ ~SIGN_SERVER_MESSAGE_DISABLED
              => /\ Contains(outcome[p].message, header_text)
                 /\ Contains(outcome[p].message, boxed)

C13_Witness ==
    \E p \in Calls :
        /\ Completed(p)
        /\ response[p].status_code = 429
        /\ response[p].body.kind = "json"
        /\ Truthy(response[p].body.message)
        /\ SIGN_SERVER_MESSAGE_DISABLED
        /\ Raised(p, "RATE_LIMIT")
        /\ outcome[p].retry_after = PyStr(<<"3", "0">>)
        /\ ~Contains(outcome[p].message, header_text)
\* the dashes of a border line before and after the label
DashesLeft(line) == (CHOOSE i \in 1..Len(line) : line[i] = " " /\ \A j \in 1..(i - 1) : line[j] # " ") - 2
DashesRight(line) == Len(line) - 2 - DashesLeft(line) - Len(header_text) - 2

\* C14 as stated: for a server message of any length the top border, which
\* carries the label, and the bottom border of the box are equally wide, and
\* the dashes left and right of the label differ by at most one.
C14_BoxAligned ==
    \A p \in Calls :
        (/\ Completed(p)
         /\ Raised(p, "RATE_LIMIT")
         /\ Truthy(response[p].body.message)
         /\ ~SIGN_SERVER_MESSAGE_DISABLED)
        => LET b == BoxLines(response[p].body.message.s) IN
           /\ Contains(outcome[p].message, b.header)
           /\ Contains(outcome[p].message, b.footer)
           /\ Len(b.header) = Len(b.footer)
           /\ Len(b.message) = Len(b.footer)
           /\ DashesRight(b.header) - DashesLeft(b.header) \in {0, 1}
\* C15: a call returns an envelope only if its response had status 200, a
\* body that is not empty and decodes, and an X-Set-TT-Cookie header; the
\* envelope is then the decoded body, and no other call holds an envelope.
C15_SuccessOnlyIf ==
    \A p \in Calls :
        /\ outcome[p].kind = "Success"
           => /\ pc[p] = "done"
              /\ response[p] # NoneV
              /\ response[p].status_code = 200
              /\ response[p].body.kind = "proto"
              /\ response[p].headers.XSetTTCookie.t = "str"
              /\ outcome[p].webcast_response.cursor = response[p].body.cursor
              /\ outcome[p].webcast_response.internal_ext = response[p].body.internal_ext
        /\ outcome[p].kind # "Success" => DOMAIN outcome[p] \cap {"webcast_response"} = {}

C15_Witness ==
    \E p \in Calls :
        /\ outcome[p].kind = "Success"
        /\ response[p].status_code = 200
        /\ response[p].headers.XSetTTCookie = OneCookie
        /\ outcome[p].webcast_response.cursor = "c1"
        /\ outcome[p].webcast_response.internal_ext = "e2"

\* C16: when the body of a status-200 response is not empty and does not
\* decode, the call ends in an error that is neither one of the five typed
\* errors nor Success, and it has written no part of the session, which is
\* what it was before the call.
C16_DecodeFailure ==
    \A p \in Calls :
        (/\ Completed(p)
         /\ response[p].status_code = 200
         /\ response[p].body.kind \notin {"empty", "proto"})
        => /\ outcome[p].kind = "DecodeError"
           /\ OutcomeName(outcome[p]) \notin Six
           /\ wrote[p] = {}
           /\ webcast_response[p] = NoneV
           /\ params \in InitParams
           /\ cookies \in InitCookies

C16_Witness ==
    \E p \in Calls :
        /\ Completed(p)
        /\ response[p].status_code = 200
        /\ response[p].body.kind = "json"
        /\ response[p].headers.XSetTTCookie = OneCookie
        /\ outcome[p].kind = "DecodeError"
        /\ params["cursor"] = "c0"
        /\ cookies = {}
\* C17: a call is off the event loop only before it starts, at the await of
\* the network response, at the await of the body and after it ends; a call
\* cancelled at one of the two awaits ends with the cancellation, which is
\* neither a typed error nor Success, and has written no part of the session.
C17_CancelAtAwaits ==
    /\ running = 0 => \A p \in Calls : pc[p] \in {"idle", "get_response", "aread", "done"}
    /\ \A p \in Calls :
          outcome[p].kind = "CancelledError"
          => /\ pc[p] = "done"
             /\ OutcomeName(outcome[p]) \notin Six
             /\ wrote[p] = {}
             /\ webcast_response[p] = NoneV

C17_Witness ==
    \E p, q \in Calls :
        /\ outcome[p].kind = "CancelledError" /\ response[p] = NoneV
        /\ outcome[q].kind = "CancelledError" /\ response[q] # NoneV

\* the index of the last token of header text s that names cookie n
LastOf(s, n) == CHOOSE i \in 1..Len(s) :
                    /\ s[i].key = n
                    /\ \A j \in (i + 1)..Len(s) : s[j].key # n

\* C18: every cookie of the jar has the domain ".tiktok.com", whatever Domain
\* attribute the header carries; after a successful call with a valid header
\* the jar holds, for each cookie name of the header, exactly one entry, and
\* its value is the last one the header gives for that name.
C18_FixedDomainLastWins ==
    /\ \A c \in cookies : c.domain = tiktok_domain
    /\ \A p \in Calls :
          (/\ Completed(p)
           /\ outcome[p].kind = "Success"
           /\ ValidCookieHeader(response[p].headers.XSetTTCookie))
          => LET s == response[p].headers.XSetTTCookie.s IN
             \A n \in HeaderNames(response[p].headers.XSetTTCookie) :
                 {c.value : c \in {d \in cookies : d.name = n}}
                     = {Unquote(s[LastOf(s, n)].val.s)}

C18_Witness ==
    \E p \in Calls :
        /\ Completed(p)
        /\ outcome[p].kind = "Success"
        /\ response[p].headers.XSetTTCookie
               = PyStr(<<Token("a", PyStr(v1)), Token("a", PyStr(v2quoted))>>)
        /\ cookies = {[name |-> "a", value |-> <<"v", "2">>, domain |-> tiktok_domain]}

\* the cookie names that the call at line 184 is about to set
Setting(n) ==
    \E p \in Calls :
        /\ pc[p] = "update_cookies"
        /\ response[p].headers.XSetTTCookie.t = "str"
        /\ n \in HeaderNames(response[p].headers.XSetTTCookie)

\* C19: in every step, a cookie of the jar is still there with its value
\* unless the step is a handshake whose header names it, and then the jar
\* still has a cookie of that name; room_id keeps its value and a parameter
\* that is set stays set.
C19_OnlyAddsOrOverwrites ==
    [][/\ \A c \in cookies :
             \/ c \in cookies'
             \/ /\ Setting(c.name)
                /\ \E d \in cookies' : d.name = c.name /\ d.domain = c.domain
       /\ DOMAIN params' = DOMAIN params
       /\ params'["room_id"] = params["room_id"]
       /\ \A k \in DOMAIN params : params[k] # Absent => params'[k] # Absent]_vars

C19_Witness ==
    /\ last_success # NoneV
    /\ cookies = {[name |-> "b", value |-> v0, domain |-> tiktok_domain],
                  [name |-> "a", value |-> v1, domain |-> tiktok_domain]}
    /\ params["room_id"] = "r1"
    /\ params["cursor"] \in Cursors
====
